---- MODULE Spec2Model ----
(***************************************************************************)
(* A model of parser.cpp: the Lexer, the recursive-descent Parser, the AST *)
(* node classes with their evaluate() methods, and the process-wide        *)
(* variable table VariableNode::variables.                                  *)
(*                                                                         *)
(* Source text is a sequence of one-character strings.  A token's value is *)
(* such a sequence too, and so is a variable name.                         *)
(***************************************************************************)
EXTENDS Integers, Sequences, FiniteSets, TLC

VARIABLES
    input,          \* Lexer::input
    position,       \* Lexer::position
    line,           \* Lexer::line
    column,         \* Lexer::column
    currentToken,   \* Parser::currentToken; in LexSpec the token the last nextToken() call returned
    tokens,         \* history: the tokens returned by direct nextToken() calls, oldest first
    ast,            \* the tree returned by Parser::parse()
    variables,      \* VariableNode::variables (static: it outlives every Parser)
    pc,             \* where the driver is: idle, lexing, constructed, parsed, done, fault
    result,         \* <<v>> once evaluate() returned v, <<>> otherwise
    fault,          \* the exception of the last operation, NoFault if it threw nothing
    envBefore,      \* history: VariableNode::variables when the current run began
    evalLog         \* history: the evaluate() calls of the last evaluation, in call order

vars == <<input, position, line, column, currentToken, tokens, ast, variables,
          pc, result, fault, envBefore, evalLog>>

----------------------------------------------------------------------------
(* Bounds of the model. *)

\* literals of the generated programs are 0..MaxLit
MaxLit == 2
\* a new run starts only while every bound variable v has -MaxVal <= v <= MaxVal
MaxVal == 2
\* lexer inputs are concatenations of at most MaxPieces pieces
MaxPieces == 3
\* at most MaxCalls direct nextToken() calls on one Lexer
MaxCalls == 5
\* arbitrary lexeme sequences have at most MaxJunk lexemes
MaxJunk == 2

(* Program constants. *)

\* INT_MAX: std::stoi throws std::out_of_range above it, int arithmetic is undefined outside
IntMax == 2147483647

----------------------------------------------------------------------------
(* Characters and <cctype>. *)

NUL == "NUL"

Digits == {"0", "1", "2", "3", "4", "5", "6", "7", "8", "9"}

Lower == {"a", "b", "c", "d", "e", "f", "g", "h", "i", "j", "k", "l", "m",
          "n", "o", "p", "q", "r", "s", "t", "u", "v", "w", "x", "y", "z"}

Upper == {"A", "B", "C", "D", "E", "F", "G", "H", "I", "J", "K", "L", "M",
          "N", "O", "P", "Q", "R", "S", "T", "U", "V", "W", "X", "Y", "Z"}

isspace(c) == c \in {" ", "\t", "\n", "\r", "\f"}

isdigit(c) == c \in Digits

isalpha(c) == c \in Lower \cup Upper

isalnum(c) == isalpha(c) \/ isdigit(c)

----------------------------------------------------------------------------
(* Tokens and faults. *)

Token(type, value, ln, col) ==
    [type |-> type, value |-> value, line |-> ln, column |-> col]

\* Parser::currentToken before the constructor body has assigned it
NoToken == Token("NONE", <<>>, 0, 0)

NoFault == [kind |-> "none", arg |-> <<>>]

\* throw std::runtime_error(kind + arg)
Fault(kind, arg) == [kind |-> kind, arg |-> arg]

\* body applied to the value of v, v being evaluated once (a local variable)
With(v, body(_)) == CHOOSE out \in {body(x) : x \in {v}} : TRUE

----------------------------------------------------------------------------
(* Lexer.  A lexer value lx is [input, position, line, column]. *)

Lexer(text) == [input |-> text, position |-> 0, line |-> 1, column |-> 1]

current(lx) ==
    IF lx.position < Len(lx.input) THEN lx.input[lx.position + 1] ELSE NUL

advance(lx) ==
    [lx EXCEPT !.line     = IF current(lx) = "\n" THEN @ + 1 ELSE @,
               !.column   = IF current(lx) = "\n" THEN 1 ELSE @ + 1,
               !.position = @ + 1]

RECURSIVE skipWhitespace(_)
skipWhitespace(lx) ==
    IF isspace(current(lx))
    THEN With(advance(lx), LAMBDA next : skipWhitespace(next))
    ELSE lx

\* the while loop of Lexer::number: [lexer, text] after the digit run
RECURSIVE numberLoop(_, _)
numberLoop(lx, text) ==
    IF isdigit(current(lx))
    THEN With(<<advance(lx), Append(text, current(lx))>>,
              LAMBDA next : numberLoop(next[1], next[2]))
    ELSE [lexer |-> lx, text |-> text]

number(lx) ==
    With(numberLoop(lx, <<>>),
         LAMBDA r : [lexer |-> r.lexer,
                     token |-> Token("NUMBER", r.text, r.lexer.line, r.lexer.column),
                     fault |-> NoFault])

\* the while loop of Lexer::identifier
RECURSIVE identifierLoop(_, _)
identifierLoop(lx, text) ==
    IF isalnum(current(lx)) \/ current(lx) = "_"
    THEN With(<<advance(lx), Append(text, current(lx))>>,
              LAMBDA next : identifierLoop(next[1], next[2]))
    ELSE [lexer |-> lx, text |-> text]

keywordType(text) ==
    IF text = <<"i", "f">> THEN "IF"
    ELSE IF text = <<"t", "h", "e", "n">> THEN "THEN"
    ELSE IF text = <<"e", "l", "s", "e">> THEN "ELSE"
    ELSE IF text = <<"e", "n", "d", "i", "f">> THEN "ENDIF"
    ELSE "IDENTIFIER"

identifier(lx) ==
    With(identifierLoop(lx, <<>>),
         LAMBDA r : [lexer |-> r.lexer,
                     token |-> Token(keywordType(r.text), r.text,
                                     r.lexer.line, r.lexer.column),
                     fault |-> NoFault])

\* the switch of Lexer::nextToken, entered after advance(); lx is the lexer after it
punctuation(lx, c) ==
    LET tok(type, value) ==
            [lexer |-> lx, token |-> Token(type, value, lx.line, lx.column),
             fault |-> NoFault]
    IN  IF c = "+" THEN tok("PLUS", <<"+">>)
        ELSE IF c = "-" THEN tok("MINUS", <<"-">>)
        ELSE IF c = "*" THEN tok("MULTIPLY", <<>>)
        ELSE IF c = "/" THEN tok("DIVIDE", <<"/">>)
        ELSE IF c = "=" THEN tok("ASSIGN", <<"=">>)
        ELSE IF c = "(" THEN tok("LPAREN", <<"(">>)
        ELSE IF c = ")" THEN tok("RPAREN", <<")">>)
        ELSE [lexer |-> lx, token |-> NoToken, fault |-> Fault("InvalidCharacter", <<c>>)]

\* scanToken with the bug of testing position > length for the end of the input
scanTokenPastEnd(lx) ==
    IF lx.position > Len(lx.input)
    THEN [lexer |-> lx, token |-> Token("END", <<>>, lx.line, lx.column),
          fault |-> NoFault]
    ELSE IF isdigit(current(lx)) THEN number(lx)
    ELSE IF isalpha(current(lx)) THEN identifier(lx)
    ELSE punctuation(advance(lx), current(lx))

\* what nextToken() does after skipWhitespace(); lx is the lexer after the skip
scanToken(lx) ==
    IF lx.position >= Len(lx.input)
    THEN [lexer |-> lx, token |-> Token("END", <<>>, lx.line, lx.column),
          fault |-> NoFault]
    ELSE IF isdigit(current(lx)) THEN number(lx)
    ELSE IF isalpha(current(lx)) THEN identifier(lx)
    ELSE With(advance(lx), LAMBDA next : punctuation(next, current(lx)))

\* Lexer::nextToken: [lexer, token, fault]; token is meaningless when fault is set
nextToken(lx) == With(skipWhitespace(lx), LAMBDA skipped : scanToken(skipped))

----------------------------------------------------------------------------
(* AST nodes. *)

\* a null std::shared_ptr<ASTNode>
NullNode == [kind |-> "Null"]

NumberNode(val) == [kind |-> "Number", value |-> val]

VariableNode(varName) == [kind |-> "Variable", name |-> varName]

BinaryOpNode(l, operation, r) ==
    [kind |-> "BinaryOp", left |-> l, op |-> operation, right |-> r]

AssignmentNode(varName, val) == [kind |-> "Assignment", name |-> varName, value |-> val]

IfNode(cond, then, else_) ==
    [kind |-> "If", condition |-> cond, thenBranch |-> then, elseBranch |-> else_]

----------------------------------------------------------------------------
(* Parser.  A parser value p is [lexer, currentToken]; every parsing       *)
(* function returns [parser, node, fault], with node = NullNode when it    *)
(* threw.                                                                  *)

DigitVal(c) ==
    CASE c = "0" -> 0 [] c = "1" -> 1 [] c = "2" -> 2 [] c = "3" -> 3 [] c = "4" -> 4
      [] c = "5" -> 5 [] c = "6" -> 6 [] c = "7" -> 7 [] c = "8" -> 8 [] c = "9" -> 9

\* the decimal value of a digit run, left to right; -1 once it exceeds INT_MAX
RECURSIVE DecimalValue(_, _)
DecimalValue(text, acc) ==
    IF text = <<>> THEN acc
    ELSE IF acc > (IntMax - DigitVal(Head(text))) \div 10 THEN -1
    ELSE DecimalValue(Tail(text), 10 * acc + DigitVal(Head(text)))

\* std::stoi on a NUMBER token's value: [value, fault]
stoi(text) ==
    With(DecimalValue(text, 0),
         LAMBDA v : IF v < 0
                    THEN [value |-> 0, fault |-> Fault("OutOfRange", text)]
                    ELSE [value |-> v, fault |-> NoFault])

Thrown(p, f) == [parser |-> p, node |-> NullNode, fault |-> f]

Returned(p, n) == [parser |-> p, node |-> n, fault |-> NoFault]

\* exception propagation: when the call that produced r threw, so does the caller;
\* otherwise the caller goes on with rest(r)
Try(r, rest(_)) ==
    With(r, LAMBDA x : IF x.fault # NoFault THEN Thrown(x.parser, x.fault) ELSE rest(x))

\* the assignment in Parser::eat, n being what lexer.nextToken() produced
takeToken(p, n) ==
    [parser |-> [lexer |-> n.lexer,
                 currentToken |-> IF n.fault = NoFault THEN n.token ELSE p.currentToken],
     fault |-> n.fault]

\* Parser::eat: [parser, fault]
eat(p, type) ==
    IF p.currentToken.type = type
    THEN With(nextToken(p.lexer), LAMBDA n : takeToken(p, n))
    ELSE [parser |-> p, fault |-> Fault("UnexpectedToken", p.currentToken.value)]

\* std::make_shared<NumberNode>(std::stoi(token.value)), v being what stoi produced
makeNumber(p, v) ==
    IF v.fault # NoFault THEN Thrown(p, v.fault) ELSE Returned(p, NumberNode(v.value))

RECURSIVE factor(_), term(_), termLoop(_, _), expr(_), exprLoop(_, _)
RECURSIVE statement(_), ifStatement(_)

factor(p) ==
    IF p.currentToken.type = "NUMBER"
    THEN Try(eat(p, "NUMBER"),
             LAMBDA e : makeNumber(e.parser, stoi(p.currentToken.value)))
    ELSE IF p.currentToken.type = "IDENTIFIER"
    THEN Try(eat(p, "IDENTIFIER"),
             LAMBDA e : Returned(e.parser, VariableNode(p.currentToken.value)))
    ELSE IF p.currentToken.type = "LPAREN"
    THEN Try(eat(p, "LPAREN"),
             LAMBDA e1 : Try(expr(e1.parser),
             LAMBDA node : Try(eat(node.parser, "RPAREN"),
             LAMBDA e2 : Returned(e2.parser, node.node))))
    ELSE Thrown(p, Fault("InvalidFactor", <<>>))

\* termLoop with the bug of nesting to the right: the right operand is the whole
\* rest of the term
RECURSIVE termLoopRightNested(_, _)
termLoopRightNested(p, node) ==
    IF p.currentToken.type \in {"MULTIPLY", "DIVIDE"}
    THEN Try(eat(p, p.currentToken.type),
             LAMBDA e : Try(factor(e.parser),
             LAMBDA f : Try(termLoopRightNested(f.parser, f.node),
             LAMBDA rest : Returned(rest.parser,
                                    BinaryOpNode(node, p.currentToken.type, rest.node)))))
    ELSE Returned(p, node)

\* the while loop of Parser::term, node being the tree built so far
termLoop(p, node) ==
    IF p.currentToken.type \in {"MULTIPLY", "DIVIDE"}
    THEN Try(eat(p, p.currentToken.type),
             LAMBDA e : Try(factor(e.parser),
             LAMBDA f : termLoop(f.parser, BinaryOpNode(node, p.currentToken.type, f.node))))
    ELSE Returned(p, node)

term(p) == Try(factor(p), LAMBDA f : termLoop(f.parser, f.node))

\* exprLoop with the bug of taking a factor, not a term, as the right operand
RECURSIVE exprLoopOfFactors(_, _)
exprLoopOfFactors(p, node) ==
    IF p.currentToken.type \in {"PLUS", "MINUS"}
    THEN Try(eat(p, p.currentToken.type),
             LAMBDA e : Try(factor(e.parser),
             LAMBDA t : exprLoopOfFactors(t.parser,
                                          BinaryOpNode(node, p.currentToken.type, t.node))))
    ELSE Returned(p, node)

\* the while loop of Parser::expr, node being the tree built so far
exprLoop(p, node) ==
    IF p.currentToken.type \in {"PLUS", "MINUS"}
    THEN Try(eat(p, p.currentToken.type),
             LAMBDA e : Try(term(e.parser),
             LAMBDA t : exprLoop(t.parser, BinaryOpNode(node, p.currentToken.type, t.node))))
    ELSE Returned(p, node)

expr(p) == Try(term(p), LAMBDA t : exprLoop(t.parser, t.node))

\* Parser::statement after eat(IDENTIFIER), name being the identifier eaten
afterIdentifier(p, name) ==
    IF p.currentToken.type = "ASSIGN"
    THEN Try(eat(p, "ASSIGN"),
             LAMBDA e : Try(expr(e.parser),
             LAMBDA value : Returned(value.parser, AssignmentNode(name, value.node))))
    ELSE Returned(p, VariableNode(name))

statement(p) ==
    IF p.currentToken.type = "IF" THEN ifStatement(p)
    ELSE IF p.currentToken.type = "IDENTIFIER"
    THEN Try(eat(p, "IDENTIFIER"),
             LAMBDA e : afterIdentifier(e.parser, p.currentToken.value))
    ELSE expr(p)

\* elsePart with the bug of never parsing an else branch
elsePartSkipped(p) == Returned(p, NullNode)

\* the optional else part of Parser::ifStatement: its node is NullNode when there is none
elsePart(p) ==
    IF p.currentToken.type = "ELSE"
    THEN Try(eat(p, "ELSE"), LAMBDA e : statement(e.parser))
    ELSE Returned(p, NullNode)

ifStatement(p) ==
    Try(eat(p, "IF"),
        LAMBDA e1 : Try(expr(e1.parser),
        LAMBDA condition : Try(eat(condition.parser, "THEN"),
        LAMBDA e2 : Try(statement(e2.parser),
        LAMBDA thenBranch : Try(elsePart(thenBranch.parser),
        LAMBDA elseBranch : Try(eat(elseBranch.parser, "ENDIF"),
        LAMBDA e3 : Returned(e3.parser,
                             IfNode(condition.node, thenBranch.node, elseBranch.node))))))))

\* the constructor body of Parser, n being what lexer.nextToken() produced
firstToken(n) ==
    [parser |-> [lexer |-> n.lexer,
                 currentToken |-> IF n.fault = NoFault THEN n.token ELSE NoToken],
     fault |-> n.fault]

\* Parser::Parser: [parser, fault]
NewParser(text) == With(nextToken(Lexer(text)), LAMBDA n : firstToken(n))

\* Parser::parse
parse(p) == statement(p)

----------------------------------------------------------------------------
(* Evaluation.  evaluate(node, env, path) is node->evaluate() with         *)
(* VariableNode::variables = env: [val, fault, env, log], where env is the *)
(* table afterwards and log lists the evaluate() calls made, each as the   *)
(* path of the node from the root and the node's kind.                     *)

Abs(n) == IF n < 0 THEN -n ELSE n

\* IntDivide with the bug of rounding toward minus infinity
FlooredDivide(l, r) == IF r < 0 THEN (-l) \div (-r) ELSE l \div r

\* INT_MIN
IntMin == -IntMax - 1

\* l / d truncated toward zero, for d > 0
TruncatedBy(l, d) ==
    With(l \div d, LAMBDA q : IF l < 0 /\ q * d # l THEN q + 1 ELSE q)

\* the int operator / of C++: the quotient truncated toward zero (r # 0, and not
\* INT_MIN / -1)
IntDivide(l, r) ==
    IF r > 0 THEN TruncatedBy(l, r)
    ELSE IF r = IntMin THEN (IF l = IntMin THEN 1 ELSE 0)
    ELSE -TruncatedBy(l, -r)

\* the product of l and r is an int
ProductInInt(l, r) ==
    IF l = 0 \/ r = 0 THEN TRUE
    ELSE IF l = IntMin THEN r = 1
    ELSE IF r = IntMin THEN l = 1
    ELSE \/ Abs(l) <= IntMax \div Abs(r)
         \/ /\ (l < 0) # (r < 0)
            /\ Abs(l) = (IntMax \div Abs(r)) + 1
            /\ IntMax % Abs(r) = Abs(r) - 1

\* the mathematical result of leftVal op rightVal is an int (rightVal # 0 for /)
InIntRange(op, leftVal, rightVal) ==
    IF op = "PLUS"
    THEN IF rightVal >= 0 THEN leftVal <= IntMax - rightVal
         ELSE leftVal >= IntMin - rightVal
    ELSE IF op = "MINUS"
    THEN IF rightVal >= 0 THEN leftVal >= IntMin + rightVal
         ELSE leftVal <= IntMax + rightVal
    ELSE IF op = "MULTIPLY" THEN ProductInInt(leftVal, rightVal)
    ELSE ~(leftVal = IntMin /\ rightVal = -1)

\* setVariable with the bug of dropping the other bindings
setVariableAlone(env, name, value) == [n \in {name} |-> value]

\* VariableNode::setVariable
setVariable(env, name, value) ==
    [n \in DOMAIN env \cup {name} |-> IF n = name THEN value ELSE env[n]]

\* lookupVariable with the bug of no find() check: variables[name] inserts 0
lookupVariableUnchecked(env, name) ==
    IF name \notin DOMAIN env
    THEN [val |-> 0, fault |-> NoFault,
          env |-> [n \in DOMAIN env \cup {name} |-> IF n = name THEN 0 ELSE env[n]]]
    ELSE [val |-> env[name], fault |-> NoFault, env |-> env]

\* VariableNode::evaluate: [val, fault, env]
lookupVariable(env, name) ==
    IF name \notin DOMAIN env
    THEN [val |-> 0, fault |-> Fault("UndefinedVariable", name), env |-> env]
    ELSE [val |-> env[name], fault |-> NoFault, env |-> env]

\* the switch of BinaryOpNode::evaluate: [val, fault].  A result outside int
\* is undefined behaviour in C++; the model stops there with a fault of its own.
applyOperator(op, leftVal, rightVal) ==
    IF op \notin {"PLUS", "MINUS", "MULTIPLY", "DIVIDE"}
    THEN [val |-> 0, fault |-> Fault("InvalidOperator", <<>>)]
    ELSE IF op = "DIVIDE" /\ rightVal = 0
    THEN [val |-> 0, fault |-> Fault("DivisionByZero", <<>>)]
    ELSE IF ~InIntRange(op, leftVal, rightVal)
    THEN [val |-> 0, fault |-> Fault("SignedOverflow", <<>>)]
    ELSE [val |-> IF op = "PLUS" THEN leftVal + rightVal
                  ELSE IF op = "MINUS" THEN leftVal - rightVal
                  ELSE IF op = "MULTIPLY" THEN leftVal * rightVal
                  ELSE IntDivide(leftVal, rightVal),
          fault |-> NoFault]

\* branchTaken with the bug of testing > 0 instead of != 0
branchTakenIfPositive(conditionVal, hasElse) ==
    IF conditionVal > 0 THEN "thenBranch"
    ELSE IF hasElse THEN "elseBranch"
    ELSE "none"

\* which branch IfNode::evaluate takes for a condition value: then, else or none
branchTaken(conditionVal, hasElse) ==
    IF conditionVal # 0 THEN "thenBranch"
    ELSE IF hasElse THEN "elseBranch"
    ELSE "none"

RECURSIVE evaluate(_, _, _)
evaluate(node, env, path) ==
    LET here == <<[path |-> path, kind |-> node.kind]>>
        out(v, f, e, lg) == [val |-> v, fault |-> f, env |-> e, log |-> lg]
    IN  IF node.kind = "Number" THEN out(node.value, NoFault, env, here)
        ELSE IF node.kind = "Variable"
        THEN With(lookupVariable(env, node.name),
                  LAMBDA r : out(r.val, r.fault, r.env, here))
        ELSE IF node.kind = "BinaryOp"
        THEN With(evaluate(node.left, env, Append(path, "left")),
             LAMBDA l :
                IF l.fault # NoFault THEN out(0, l.fault, l.env, here \o l.log)
                ELSE With(evaluate(node.right, l.env, Append(path, "right")),
             LAMBDA r :
                IF r.fault # NoFault
                THEN out(0, r.fault, r.env, here \o l.log \o r.log)
                ELSE With(applyOperator(node.op, l.val, r.val),
             LAMBDA v : out(v.val, v.fault, r.env, here \o l.log \o r.log))))
        ELSE IF node.kind = "Assignment"
        THEN With(evaluate(node.value, env, Append(path, "value")),
             LAMBDA v :
                IF v.fault # NoFault THEN out(0, v.fault, v.env, here \o v.log)
                ELSE out(v.val, NoFault, setVariable(v.env, node.name, v.val),
                         here \o v.log))
        ELSE IF node.kind = "If"
        THEN With(evaluate(node.condition, env, Append(path, "condition")),
             LAMBDA c :
                IF c.fault # NoFault THEN out(0, c.fault, c.env, here \o c.log)
                ELSE With(branchTaken(c.val, node.elseBranch # NullNode),
             LAMBDA which :
                IF which = "none" THEN out(0, NoFault, c.env, here \o c.log)
                ELSE With(evaluate(node[which], c.env, Append(path, which)),
             LAMBDA b : out(b.val, b.fault, b.env, here \o c.log \o b.log))))
        ELSE out(0, Fault("NotANode", <<>>), env, here)

----------------------------------------------------------------------------
(* Source texts the driver is given.  A lexeme is a sequence of            *)
(* characters, a phrase a sequence of lexemes, and Text(phrase) the source *)
(* string with one space between two lexemes.                              *)

DigitChar(d) ==
    CASE d = 0 -> "0" [] d = 1 -> "1" [] d = 2 -> "2" [] d = 3 -> "3" [] d = 4 -> "4"
      [] d = 5 -> "5" [] d = 6 -> "6" [] d = 7 -> "7" [] d = 8 -> "8" [] d = 9 -> "9"

\* the decimal numeral of a natural number
RECURSIVE Lit(_)
Lit(n) == IF n < 10 THEN <<DigitChar(n)>> ELSE Append(Lit(n \div 10), DigitChar(n % 10))

RECURSIVE Text(_)
Text(phrase) ==
    IF phrase = <<>> THEN <<>>
    ELSE IF Len(phrase) = 1 THEN phrase[1]
    ELSE phrase[1] \o <<" ">> \o Text(Tail(phrase))

Literals == 0 .. MaxLit

Names == {<<"x">>, <<"y">>}

KwIf == <<"i", "f">>
KwThen == <<"t", "h", "e", "n">>
KwElse == <<"e", "l", "s", "e">>
KwEndif == <<"e", "n", "d", "i", "f">>

Additive == {<<"+">>, <<"-">>}
Multiplicative == {<<"*">>, <<"/">>}
Operators == Additive \cup Multiplicative

Atoms == {Lit(n) : n \in Literals} \cup Names

AtomPhrases == {<<a>> : a \in Atoms}

BinaryPhrases == {<<a, o, b>> : a \in Atoms, o \in Operators, b \in Atoms}

ExprPhrases == AtomPhrases \cup BinaryPhrases

AssignPhrases == {<<n, <<"=">>>> \o e : n \in Names, e \in ExprPhrases}

\* the statements put in the branches of a conditional
BranchPhrases ==
    {<<n, <<"=">>, a>> : n \in Names, a \in {Lit(1)} \cup Names}
        \cup {<<<<"y">>, <<"=">>, Lit(1), <<"/">>, Lit(0)>>}

ConditionPhrases == AtomPhrases \cup {<<Lit(0), <<"-">>, Lit(1)>>}

IfPhrases ==
    {<<KwIf>> \o c \o <<KwThen>> \o t \o <<KwEndif>> :
        c \in ConditionPhrases, t \in BranchPhrases}

IfElsePhrases ==
    {<<KwIf>> \o c \o <<KwThen>> \o t \o <<KwElse>> \o e \o <<KwEndif>> :
        c \in ConditionPhrases, t \in BranchPhrases, e \in BranchPhrases}

\* assignments of a literal beyond int, which std::stoi rejects
LimitPhrases ==
    {<<n, <<"=">>, Lit(IntMax) \o <<"0">>>> : n \in Names}

\* the statements of the grammar: assignments and conditionals
StatementPhrases == AssignPhrases \cup IfPhrases \cup IfElsePhrases \cup LimitPhrases

JunkLexemes == {Lit(1), <<"x">>, <<"+">>, <<"=">>, <<"(">>, <<")">>, KwIf, <<";">>}

\* every sequence of at most MaxJunk lexemes
JunkPhrases == UNION {[1 .. n -> JunkLexemes] : n \in 0 .. MaxJunk}

Programs == {Text(ph) : ph \in ExprPhrases \cup StatementPhrases \cup JunkPhrases}

\* arithmetic on three literals, bare and as the right side of an assignment
ChainPhrases ==
    {<<Lit(a), o1, Lit(b), o2, Lit(c)>> :
        a \in Literals, b \in Literals, c \in Literals, o1 \in Operators, o2 \in Operators}

LeftParenPhrases ==
    {<<<<"(">>, Lit(a), o1, Lit(b), <<")">>, o2, Lit(c)>> :
        a \in Literals, b \in Literals, c \in Literals, o1 \in Operators, o2 \in Operators}

RightParenPhrases ==
    {<<Lit(a), o1, <<"(">>, Lit(b), o2, Lit(c), <<")">>>> :
        a \in Literals, b \in Literals, c \in Literals, o1 \in Operators, o2 \in Operators}

ArithmeticPhrases == ChainPhrases \cup LeftParenPhrases \cup RightParenPhrases

ArithmeticPrograms ==
    {Text(ph) : ph \in ArithmeticPhrases}
        \cup {Text(<<<<"x">>, <<"=">>>> \o ph) : ph \in ArithmeticPhrases}

\* the pieces lexer inputs are concatenated from
Pieces == {KwIf, KwThen, KwElse, KwEndif, <<"f">>, <<"I">>, <<"x">>, <<"_">>,
           <<"1">>, <<" ">>, <<"\n">>, <<"+">>, <<";">>}

RECURSIVE Concat(_)
Concat(pieces) == IF pieces = <<>> THEN <<>> ELSE Head(pieces) \o Concat(Tail(pieces))

LexInputs == {Concat(ps) : ps \in UNION {[1 .. n -> Pieces] : n \in 0 .. MaxPieces}}

----------------------------------------------------------------------------
(* The driver: main() builds a Parser on the text, parses, evaluates, and  *)
(* catches whatever is thrown.  VariableNode::variables is static, so a    *)
(* process that runs the three steps again starts from the table the       *)
(* earlier runs left.                                                      *)

Init ==
    /\ input = <<>>
    /\ position = 0
    /\ line = 1
    /\ column = 1
    /\ currentToken = NoToken
    /\ tokens = <<>>
    /\ ast = NullNode
    /\ variables = <<>>
    /\ pc = "idle"
    /\ result = <<>>
    /\ fault = NoFault
    /\ envBefore = <<>>
    /\ evalLog = <<>>

TheLexer == [input |-> input, position |-> position, line |-> line, column |-> column]

TheParser == [lexer |-> TheLexer, currentToken |-> currentToken]

EnvWithinCap == \A n \in DOMAIN variables : -MaxVal <= variables[n] /\ variables[n] <= MaxVal

\* Parser parser(text)
NewRun(text) ==
    \E r \in {NewParser(text)} :
        /\ input' = r.parser.lexer.input
        /\ position' = r.parser.lexer.position
        /\ line' = r.parser.lexer.line
        /\ column' = r.parser.lexer.column
        /\ currentToken' = r.parser.currentToken
        /\ fault' = r.fault
        /\ pc' = IF r.fault = NoFault THEN "constructed" ELSE "fault"
        /\ ast' = NullNode
        /\ result' = <<>>
        /\ envBefore' = variables
        /\ evalLog' = <<>>
        /\ UNCHANGED <<variables, tokens>>

\* a further run, on any program, with the variable table the earlier runs left
Construct ==
    /\ pc = "idle"
    /\ EnvWithinCap
    /\ \E text \in Programs : NewRun(text)

\* the one run of main(), on an arithmetic expression
ConstructOnce ==
    /\ pc = "idle"
    /\ \E text \in ArithmeticPrograms : NewRun(text)

\* auto ast = parser.parse()
Parse ==
    /\ pc = "constructed"
    /\ \E r \in {parse(TheParser)} :
           /\ position' = r.parser.lexer.position
           /\ line' = r.parser.lexer.line
           /\ column' = r.parser.lexer.column
           /\ currentToken' = r.parser.currentToken
           /\ ast' = r.node
           /\ fault' = r.fault
           /\ pc' = IF r.fault = NoFault THEN "parsed" ELSE "fault"
    /\ UNCHANGED <<input, tokens, variables, result, envBefore, evalLog>>

\* int result = parser.evaluate(ast)
Evaluate ==
    /\ pc = "parsed"
    /\ \E r \in {evaluate(ast, variables, <<>>)} :
           /\ variables' = r.env
           /\ result' = IF r.fault = NoFault THEN <<r.val>> ELSE <<>>
           /\ fault' = r.fault
           /\ evalLog' = r.log
           /\ pc' = IF r.fault = NoFault THEN "done" ELSE "fault"
    /\ UNCHANGED <<input, position, line, column, currentToken, tokens, ast, envBefore>>

\* the end of main(): the result or the error is reported and the Parser destroyed;
\* only the static variable table is left
EndRun ==
    /\ pc \in {"done", "fault"}
    /\ input' = <<>>
    /\ position' = 0
    /\ line' = 1
    /\ column' = 1
    /\ currentToken' = NoToken
    /\ ast' = NullNode
    /\ pc' = "idle"
    /\ result' = <<>>
    /\ fault' = NoFault
    /\ envBefore' = <<>>
    /\ evalLog' = <<>>
    /\ UNCHANGED <<variables, tokens>>

\* Lexer lexer(text), used on its own
NewLexer ==
    /\ pc = "idle"
    /\ \E text \in LexInputs :
        /\ input' = text
        /\ position' = 0
        /\ line' = 1
        /\ column' = 1
    /\ pc' = "lexing"
    /\ UNCHANGED <<currentToken, tokens, ast, variables, result, fault, envBefore, evalLog>>

\* one lexer.nextToken() call; a caller that catches the exception may call again
CallNextToken ==
    /\ pc = "lexing"
    /\ Len(tokens) < MaxCalls
    /\ \E n \in {nextToken(TheLexer)} :
           /\ position' = n.lexer.position
           /\ line' = n.lexer.line
           /\ column' = n.lexer.column
           /\ currentToken' = (IF n.fault = NoFault THEN n.token ELSE NoToken)
           /\ tokens' = Append(tokens, IF n.fault = NoFault THEN n.token ELSE NoToken)
           /\ fault' = n.fault
    /\ UNCHANGED <<input, ast, variables, pc, result, envBefore, evalLog>>

Next == Construct \/ Parse \/ Evaluate \/ EndRun

Spec == Init /\ [][Next]_vars

\* main() runs to its end: a started parse or evaluation is carried out
FairSpec == Spec /\ WF_vars(Parse) /\ WF_vars(Evaluate)

NextOnce == ConstructOnce \/ Parse \/ Evaluate

ExprSpec == Init /\ [][NextOnce]_vars

NextLex == NewLexer \/ CallNextToken

LexSpec == Init /\ [][NextLex]_vars

----------------------------------------------------------------------------
(* What the properties below are stated with. *)

\* the run has ended: evaluate() returned, or something threw
Ended == pc \in {"done", "fault"}

\* evaluate() was entered in this run
Evaluated == Ended /\ evalLog # <<>>

\* how the run ended: the value returned, if any, and the kind of exception, if any
Outcome == [result |-> result, fault |-> fault.kind]

Value(v) == [result |-> <<v>>, fault |-> "none"]

Failure(kind) == [result |-> <<>>, fault |-> kind]

\* q is the quotient of l by r truncated toward zero
IsTruncatedQuotient(q, l, r) ==
    /\ Abs(q) * Abs(r) <= Abs(l)
    /\ Abs(l) < (Abs(q) + 1) * Abs(r)
    /\ q > 0 => (l < 0) = (r < 0)
    /\ q < 0 => (l < 0) # (r < 0)

\* integer arithmetic on two outcomes, in the order left, right, operator
Arith(o, l, r) ==
    IF l.fault # "none" THEN l
    ELSE IF r.fault # "none" THEN r
    ELSE IF o = <<"+">> THEN Value(l.result[1] + r.result[1])
    ELSE IF o = <<"-">> THEN Value(l.result[1] - r.result[1])
    ELSE IF o = <<"*">> THEN Value(l.result[1] * r.result[1])
    ELSE IF r.result[1] = 0 THEN Failure("DivisionByZero")
    ELSE Value(CHOOSE q \in -Abs(l.result[1]) .. Abs(l.result[1]) :
                   IsTruncatedQuotient(q, l.result[1], r.result[1]))

\* the texts of 'a o1 b o2 c', bare and assigned to x
Chain(a, o1, b, o2, c) ==
    {Text(<<Lit(a), o1, Lit(b), o2, Lit(c)>>),
     Text(<<<<"x">>, <<"=">>, Lit(a), o1, Lit(b), o2, Lit(c)>>)}

\* the texts of '( a o1 b ) o2 c', bare and assigned to x
LeftParen(a, o1, b, o2, c) ==
    {Text(<<<<"(">>, Lit(a), o1, Lit(b), <<")">>, o2, Lit(c)>>),
     Text(<<<<"x">>, <<"=">>, <<"(">>, Lit(a), o1, Lit(b), <<")">>, o2, Lit(c)>>)}

\* the texts of 'a o1 ( b o2 c )', bare and assigned to x
RightParen(a, o1, b, o2, c) ==
    {Text(<<Lit(a), o1, <<"(">>, Lit(b), o2, Lit(c), <<")">>>>),
     Text(<<<<"x">>, <<"=">>, Lit(a), o1, <<"(">>, Lit(b), o2, Lit(c), <<")">>>>)}

\* each text mixing the two operator groups, with the outcome precedence gives it
PrecedenceCases ==
    UNION {
        {<<t, Arith(oa, Value(a), Arith(om, Value(b), Value(c)))>> :
            t \in Chain(a, oa, b, om, c)}
        \cup {<<t, Arith(oa, Arith(om, Value(a), Value(b)), Value(c))>> :
            t \in Chain(a, om, b, oa, c)}
        \cup {<<t, Arith(om, Arith(oa, Value(a), Value(b)), Value(c))>> :
            t \in LeftParen(a, oa, b, om, c)}
        \cup {<<t, Arith(om, Value(a), Arith(oa, Value(b), Value(c)))>> :
            t \in RightParen(a, om, b, oa, c)} :
        <<a, b, c, oa, om>> \in
            Literals \X Literals \X Literals \X Additive \X Multiplicative}

\* each chain of two operators of one group, with the outcome left-nesting gives it
AssociativityCases ==
    UNION {
        {<<t, Arith(o2, Arith(o1, Value(a), Value(b)), Value(c))>> :
            t \in Chain(a, o1, b, o2, c)} :
        <<a, b, c, o1, o2>> \in
            (Literals \X Literals \X Literals \X Additive \X Additive)
                \cup (Literals \X Literals \X Literals \X Multiplicative \X Multiplicative)}

\* C1: operator precedence.  When the run on 'a + b * c' (or with -, /) has ended,
\* its outcome is that of a + (b * c); on 'a * b + c' that of (a * b) + c; on
\* '( a + b ) * c' that of (a + b) * c and on 'a * ( b + c )' that of a * (b + c).
C1_Precedence ==
    Ended => \A cs \in PrecedenceCases : input = cs[1] => Outcome = cs[2]

\* the run on '1 + 2 * 2' ended with 5
C1_Witness ==
    /\ pc = "done"
    /\ input = Text(<<Lit(1), <<"+">>, Lit(2), <<"*">>, Lit(2)>>)
    /\ result = <<5>>

\* C2: left-associativity.  When the run on 'a op1 b op2 c', op1 and op2 of one
\* precedence group, has ended, its outcome is that of (a op1 b) op2 c.
C2_LeftAssociative ==
    Ended => \A cs \in AssociativityCases : input = cs[1] => Outcome = cs[2]

\* the run on '2 - 1 - 1' ended with 0 (and not with 2)
C2_Witness ==
    /\ pc = "done"
    /\ input = Text(<<Lit(2), <<"-">>, Lit(1), <<"-">>, Lit(1)>>)
    /\ result = <<0>>

----------------------------------------------------------------------------
(* Properties of evaluation, over runs that share the variable table. *)

IsExpression(n) == n.kind \in {"Number", "Variable", "BinaryOp"}

\* the expression evaluated by the run: the tree, or the right side of the assignment
TopExpr == IF ast.kind = "Assignment" THEN ast.value ELSE ast

\* the node of tree n at a path
RECURSIVE NodeAt(_, _)
NodeAt(n, path) == IF path = <<>> THEN n ELSE NodeAt(n[Head(path)], Tail(path))

IsPrefix(pre, path) == Len(pre) <= Len(path) /\ SubSeq(path, 1, Len(pre)) = pre

\* the evaluate() calls of the last evaluation on nodes at or under a path
CallsUnder(path) == {i \in 1 .. Len(evalLog) : IsPrefix(path, evalLog[i].path)}

\* the value of an operand that is a number or a bound variable
AtomValue(n) == IF n.kind = "Number" THEN n.value ELSE envBefore[n.name]

IsBoundAtom(n) ==
    \/ n.kind = "Number"
    \/ n.kind = "Variable" /\ n.name \in DOMAIN envBefore

IsUnboundVariable(n) == n.kind = "Variable" /\ n.name \notin DOMAIN envBefore

\* C3: division.  When a division of two operands that have values has been
\* evaluated, a nonzero right value gives the quotient truncated toward zero, and
\* a zero right value gives the DivisionByZero fault, no value, and an unchanged
\* variable table.
C3_Division ==
    (Evaluated /\ TopExpr.kind = "BinaryOp" /\ TopExpr.op = "DIVIDE"
        /\ IsBoundAtom(TopExpr.left) /\ IsBoundAtom(TopExpr.right))
    => LET l == AtomValue(TopExpr.left)
           r == AtomValue(TopExpr.right)
       IN  IF r = 0
           THEN fault = Fault("DivisionByZero", <<>>) /\ result = <<>>
                    /\ variables = envBefore
           ELSE fault = NoFault /\ Len(result) = 1
                    /\ IsTruncatedQuotient(result[1], l, r)

\* a run divided -1 by 2 and returned 0
C3_Witness ==
    /\ pc = "done"
    /\ TopExpr.kind = "BinaryOp" /\ TopExpr.op = "DIVIDE"
    /\ IsBoundAtom(TopExpr.left) /\ AtomValue(TopExpr.left) = -1
    /\ TopExpr.right = NumberNode(2)
    /\ result = <<0>>

\* C4: undefined variable.  A run that read an unbound name ended with
\* UndefinedVariable carrying that name, no value and the variable table as it
\* was; the leftmost unbound operand is the one reported.  A bound name
\* evaluates to its value in the table.
C4_UndefinedVariable ==
    Evaluated =>
        /\ fault.kind = "UndefinedVariable" =>
            /\ fault.arg \notin DOMAIN envBefore
            /\ result = <<>>
            /\ variables = envBefore
        /\ ast.kind = "Variable" =>
            IF ast.name \in DOMAIN envBefore
            THEN fault = NoFault /\ result = <<envBefore[ast.name]>>
            ELSE fault = Fault("UndefinedVariable", ast.name)
        /\ IsUnboundVariable(TopExpr) => fault = Fault("UndefinedVariable", TopExpr.name)
        /\ TopExpr.kind = "BinaryOp" =>
            /\ IsUnboundVariable(TopExpr.left)
                => fault = Fault("UndefinedVariable", TopExpr.left.name)
            /\ (IsBoundAtom(TopExpr.left) /\ IsUnboundVariable(TopExpr.right))
                => fault = Fault("UndefinedVariable", TopExpr.right.name)

\* the run on 'x = y + 1' with y unbound ended with UndefinedVariable(y), x unbound
C4_Witness ==
    /\ pc = "fault"
    /\ ast = AssignmentNode(<<"x">>,
                            BinaryOpNode(VariableNode(<<"y">>), "PLUS", NumberNode(1)))
    /\ fault = Fault("UndefinedVariable", <<"y">>)
    /\ <<"x">> \notin DOMAIN variables

\* how evaluating statement n on the table the run began with ends
StatementOutcome(n) ==
    With(evaluate(n, envBefore, <<>>),
         LAMBDA r : [result |-> IF r.fault = NoFault THEN <<r.val>> ELSE <<>>,
                     fault |-> r.fault, variables |-> r.env])

RunOutcome == [result |-> result, fault |-> fault, variables |-> variables]

\* C5: conditional.  When an If has been evaluated, its condition was evaluated
\* once; with a nonzero condition the run ended as the then-branch alone does and
\* the else-branch was not evaluated; with a zero condition and an else-branch it
\* ended as the else-branch alone does and the then-branch was not evaluated;
\* with a zero condition and no else-branch nothing was evaluated and the
\* variable table is unchanged.
C5_Conditional ==
    (Evaluated /\ ast.kind = "If") =>
        LET c == StatementOutcome(ast.condition)
        IN  /\ Cardinality({i \in 1 .. Len(evalLog) :
                                evalLog[i].path = <<"condition">>}) = 1
            /\ c.fault # NoFault =>
                /\ fault = c.fault /\ variables = envBefore
                /\ CallsUnder(<<"thenBranch">>) \cup CallsUnder(<<"elseBranch">>) = {}
            /\ (c.fault = NoFault /\ c.result[1] # 0) =>
                /\ RunOutcome = StatementOutcome(ast.thenBranch)
                /\ CallsUnder(<<"thenBranch">>) # {}
                /\ CallsUnder(<<"elseBranch">>) = {}
            /\ (c.fault = NoFault /\ c.result[1] = 0 /\ ast.elseBranch # NullNode) =>
                /\ RunOutcome = StatementOutcome(ast.elseBranch)
                /\ CallsUnder(<<"elseBranch">>) # {}
                /\ CallsUnder(<<"thenBranch">>) = {}
            /\ (c.fault = NoFault /\ c.result[1] = 0 /\ ast.elseBranch = NullNode) =>
                /\ fault = NoFault /\ variables = envBefore
                /\ CallsUnder(<<"thenBranch">>) \cup CallsUnder(<<"elseBranch">>) = {}

\* the run on 'if 0 - 1 then x = 1 else y = 1 / 0 endif' bound x and did not fault
C5_Witness ==
    /\ pc = "done"
    /\ ast.kind = "If"
    /\ ast.condition = BinaryOpNode(NumberNode(0), "MINUS", NumberNode(1))
    /\ ast.elseBranch = AssignmentNode(<<"y">>,
                            BinaryOpNode(NumberNode(1), "DIVIDE", NumberNode(0)))
    /\ <<"x">> \notin DOMAIN envBefore
    /\ <<"x">> \in DOMAIN variables
    /\ fault = NoFault

\* the table after is the table before with name bound to value, nothing else changed
BindsOnly(before, after, name, value) ==
    /\ DOMAIN after = DOMAIN before \cup {name}
    /\ after[name] = value
    /\ \A n \in DOMAIN before \ {name} : after[n] = before[n]

\* C9: environment frame.  In every step no binding is removed; the variable table
\* changes only in an evaluation that returns and in which an Assignment was
\* evaluated, and then exactly that node's name is bound to the value returned; an
\* Assignment that returns binds its name to the value of its expression; the
\* evaluation of a Number, Variable or BinaryOp, and any step ending in a fault,
\* leave the table as it was.
C9_Frame ==
    [][/\ DOMAIN variables \subseteq DOMAIN variables'
       /\ variables' # variables =>
            /\ pc = "parsed" /\ pc' = "done"
            /\ \E i \in 1 .. Len(evalLog') :
                /\ evalLog'[i].kind = "Assignment"
                /\ BindsOnly(variables, variables',
                             NodeAt(ast, evalLog'[i].path).name, result'[1])
       /\ (pc = "parsed" /\ pc' = "done" /\ ast.kind = "Assignment") =>
            /\ BindsOnly(variables, variables', ast.name, result'[1])
            /\ Value(result'[1]).result = StatementOutcome(ast.value).result
       /\ (pc = "parsed" /\ IsExpression(ast)) => variables' = variables
       /\ pc' = "fault" => variables' = variables
      ]_vars

\* an assignment overwrote x with another value while y was bound
C9_Witness ==
    /\ pc = "done"
    /\ ast.kind = "Assignment" /\ ast.name = <<"x">>
    /\ DOMAIN envBefore = Names
    /\ variables[<<"x">>] # envBefore[<<"x">>]
    /\ variables[<<"y">>] = envBefore[<<"y">>]
    /\ result = <<variables[<<"x">>]>>

\* C10: whole-input parsing.  When parse() has returned a tree, the lookahead
\* token is END.
C10_WholeInput == pc \in {"parsed", "done"} => currentToken.type = "END"


\* the statements of the grammar, as source texts
ValidTexts == {Text(ph) : ph \in StatementPhrases}

\* the names a text reads: every x or y in it that is not the target of an '='
ReadsOfText(t) ==
    {<<t[i]>> : i \in {j \in 1 .. Len(t) :
                          /\ <<t[j]>> \in Names
                          /\ ~(j + 2 <= Len(t) /\ t[j + 2] = "=")}}

\* the run was given a statement of the grammar that reads only bound variables
ValidAndDefined == input \in ValidTexts /\ ReadsOfText(input) \subseteq DOMAIN envBefore

Defined == fault.kind # "SignedOverflow"

----------------------------------------------------------------------------
(* Properties of the Lexer used on its own. *)

\* the least element of a non-empty set of integers
Least(S) == CHOOSE k \in S : \A j \in S : k <= j

\* the first position at or after pos that holds no whitespace (the length if none)
FirstNonSpace(pos) ==
    Least({k \in pos .. Len(input) : k = Len(input) \/ ~isspace(input[k + 1])})

\* the end of the run of letters, digits and underscores that starts at start
RunEnd(start) ==
    Least({k \in start .. Len(input) :
              k = Len(input) \/ ~(isalnum(input[k + 1]) \/ input[k + 1] = "_")})

KindOfWord(word) ==
    IF word = KwIf THEN "IF"
    ELSE IF word = KwThen THEN "THEN"
    ELSE IF word = KwElse THEN "ELSE"
    ELSE IF word = KwEndif THEN "ENDIF"
    ELSE "IDENTIFIER"

\* the nextToken() call of this step returned the whole word at start, as a keyword
\* when it is one and as an IDENTIFIER otherwise
ReturnsWord(start) ==
    /\ fault' = NoFault
    /\ currentToken'.value = SubSeq(input, start + 1, RunEnd(start))
    /\ currentToken'.type = KindOfWord(currentToken'.value)
    /\ position' = RunEnd(start)

\* C7: identifier tokenization.  A nextToken() call whose first non-whitespace
\* character is a letter or an underscore returns the maximal run of letters,
\* digits and underscores starting there, as IF, THEN, ELSE or ENDIF when the run
\* is that word and as IDENTIFIER otherwise.
C7_Identifier ==
    [][tokens' # tokens =>
        LET start == FirstNonSpace(position)
        IN  (start < Len(input) /\ (isalpha(input[start + 1]) \/ input[start + 1] = "_"))
                => ReturnsWord(start)
      ]_vars

\* the part of C7 that holds: the same for a first character that is a letter
C7_LetterFirst ==
    [][tokens' # tokens =>
        LET start == FirstNonSpace(position)
        IN  (start < Len(input) /\ isalpha(input[start + 1])) => ReturnsWord(start)
      ]_vars

OnlySpaceFrom(pos) == \A k \in pos + 1 .. Len(input) : isspace(input[k])

\* C8: lexing at the end of the input.  The scan position never passes the end
\* of the input, and a nextToken() call made when only whitespace, or nothing,
\* remains returns END, without a fault, and leaves the position at the end;
\* so does every call after it.
C8_EndIdempotent ==
    [][/\ position' <= Len(input')
       /\ (tokens' # tokens /\ OnlySpaceFrom(position)) =>
            /\ fault' = NoFault
            /\ currentToken'.type = "END"
            /\ position' = Len(input)
            /\ OnlySpaceFrom(position')
      ]_vars

\* after a token and trailing whitespace, two calls in a row returned END
C8_Witness ==
    /\ pc = "lexing"
    /\ Len(tokens) >= 3
    /\ tokens[1].type = "IDENTIFIER"
    /\ tokens[Len(tokens) - 1].type = "END"
    /\ tokens[Len(tokens)].type = "END"
    /\ isspace(input[Len(input)])
    /\ position = Len(input)
    /\ fault = NoFault

====
